---- MODULE Spec2Model ----
(***************************************************************************)
(* GPS.ino (M5AtomS3 + Atomic GPS Base, BLE build): the cooperative main   *)
(* loop, the NVS-backed settings, and the NimBLE server callbacks that run *)
(* on the radio task concurrently with the loop.                           *)
(*                                                                         *)
(* The loop is one process, one action per statement group of loop(); the  *)
(* radio task is a second process, one action per callback step.  Steps of *)
(* the two interleave freely.  The callbacks themselves are serialised: the*)
(* radio host task delivers one event at a time, so onDisconnect cannot    *)
(* run while onConnect sits in its delay(100).                             *)
(*                                                                         *)
(* Time: `millis` is the value of millis(), an unsigned long; `clock` is   *)
(* the time in ms elapsed since loop() was first entered.  The statements  *)
(* of one loop iteration read the same clock value; the clock advances in  *)
(* the delay at the end of the iteration, which lasts at least LOOP_DELAY. *)
(***************************************************************************)
EXTENDS Integers, Sequences, FiniteSets, TLC

\* ---------------------------------------------------------------- constants
BLE_TRANSMIT_INTERVAL == 1000
SAVE_INTERVAL == 60000
MODE_COUNT == 3
BRIGHTNESS_COUNT == 3
LOOP_DELAY == 100
CONNECT_DELAY == 100
SETUP_DELAY == 1000
FAULT_GRACE == 5000
FAULT_MIN_CHARS == 10
ClockBits == 32

MODE_MAIN == 0
MODE_SATELLITES == 1
MODE_SPEED_ALT == 2

\* ------------------------------------------------------------------- bounds
\* loop iterations explored
MaxIter == 5
\* connect events explored
MaxConnects == 2
\* power cycles explored
MaxBoots == 1

\* unsigned long (32 bit) values are pairs <<high half, low half>>
Half == 2 ^ (ClockBits \div 2)
U32(n) == << (n \div Half) % Half, n % Half >>
\* a + d modulo 2^32, for 0 <= d < 2^31
Add32(a, d) ==
  LET lo == a[2] + (d % Half)
  IN << (a[1] + (d \div Half) + (lo \div Half)) % Half, lo % Half >>
\* a - b modulo 2^32
Sub32(a, b) ==
  LET lo == a[2] - b[2]
      borrow == IF lo < 0 THEN 1 ELSE 0
  IN << (a[1] - b[1] - borrow + 2 * Half) % Half, (lo + Half) % Half >>
\* a > k, for 0 <= k < 2^31
Gt32(a, k) == a[1] >= Half \div 2 \/ a[1] * Half + a[2] > k

\* how long one loop iteration can last: delay(100) sleeps at least 100 ms
ShortPeriods == {LOOP_DELAY, BLE_TRANSMIT_INTERVAL}
LongPeriods == {LOOP_DELAY, SAVE_INTERVAL}
\* iterations of the loop period, a transmit interval or a save interval
AllPeriods == {LOOP_DELAY, BLE_TRANSMIT_INTERVAL, SAVE_INTERVAL}
\* iterations held up for a whole save interval each
SlowPeriods == {SAVE_INTERVAL}
\* iterations just longer than the transmit interval
TransmitPeriods == {BLE_TRANSMIT_INTERVAL + LOOP_DELAY}

\* what AtomS3.update() can report in one iteration
Presses == [hold : BOOLEAN, click : BOOLEAN]
NoPress == {[hold |-> FALSE, click |-> FALSE]}

\* positions in microdegrees
Fixes == { [lat |-> 37422000, lng |-> -122084000], [lat |-> 0, lng |-> 0] }
NoFix == [lat |-> 0, lng |-> 0]

\* bytes the decoder processes during one updateGPS()
Bursts == {0, 5}

\* the other decoder fields the program reads: time (h, m, s, centiseconds),
\* satellite count, HDOP and altitude (both in hundredths), the part of the
\* position below a microdegree (nanodegrees of the magnitude, the decoder
\* keeping billionths of a degree), the fix-quality class, speed (what
\* gps.speed.kmph() returns, in thousandths of a km/h) and course (hundredths
\* of a degree)
NoTime == [valid |-> FALSE, h |-> 0, m |-> 0, s |-> 0, cs |-> 0]
NoValue == [valid |-> FALSE, value |-> 0]
NoSub == [lat |-> 0, lng |-> 0]
NoMore ==
  [time |-> NoTime, sats |-> NoValue, hdop |-> NoValue, alt |-> NoValue,
   sub |-> NoSub, quality |-> "GPS", speed |-> NoValue, course |-> NoValue]

\* what one updateGPS() can leave behind: validity, position, bytes
\* processed, the other fields
FullFeed == [valid : BOOLEAN, fix : Fixes, burst : Bursts, more : {NoMore}]
NoFixFeed == [valid : {FALSE}, fix : {NoFix}, burst : Bursts, more : {NoMore}]
OneFixFeed ==
  [valid : BOOLEAN, fix : {[lat |-> 37422000, lng |-> -122084000]}, burst : {5},
   more : {NoMore}]

\* a sensor that is silent, or delivers bytes with a fix
SilentOrFix ==
  [valid : {FALSE}, fix : {NoFix}, burst : {0}, more : {NoMore}]
    \cup [valid : {TRUE}, fix : Fixes, burst : {5}, more : {NoMore}]

\* snapshots for the encoder: each field valid or not around one fix, and,
\* every field valid, positions in all four quadrants, on the equator and
\* just below a whole degree, with and without a part below a microdegree,
\* every fix-quality class, an altitude below sea level
Times == { NoTime, [valid |-> TRUE, h |-> 1, m |-> 23, s |-> 45, cs |-> 6] }
SatCounts == { NoValue, [valid |-> TRUE, value |-> 7] }
Hdops == { NoValue, [valid |-> TRUE, value |-> 99] }
Altitudes == { NoValue, [valid |-> TRUE, value |-> 884886] }
EncFixes ==
  { [lat |-> 37422000, lng |-> -122084000], [lat |-> -37422000, lng |-> 122084000],
    [lat |-> -33868820, lng |-> 151209290], [lat |-> 0, lng |-> 0],
    [lat |-> 37999999, lng |-> -122999999] }
\* nanodegrees that do not fall half-way between two millionths of a minute
Subs == { NoSub, [lat |-> 993, lng |-> 993] }
Qualities == { "GPS", "DGPS", "RTK", "FloatRTK" }
AllValid ==
  [time |-> [valid |-> TRUE, h |-> 1, m |-> 23, s |-> 45, cs |-> 6],
   sats |-> [valid |-> TRUE, value |-> 7], hdop |-> [valid |-> TRUE, value |-> 99],
   alt |-> [valid |-> TRUE, value |-> 884886],
   sub |-> NoSub, quality |-> "GPS", speed |-> NoValue, course |-> NoValue]
EncFeed ==
  [valid : BOOLEAN, fix : {[lat |-> 37422000, lng |-> -122084000]}, burst : {5},
   more : [time : Times, sats : SatCounts, hdop : Hdops, alt : Altitudes,
           sub : {NoSub}, quality : {"GPS"}, speed : {NoValue}, course : {NoValue}]]
    \cup [valid : {TRUE}, fix : EncFixes, burst : {5},
          more : {[AllValid EXCEPT !.sub = s] : s \in Subs}]
    \cup [valid : BOOLEAN, fix : {[lat |-> 37422000, lng |-> -122084000]}, burst : {5},
          more : {[AllValid EXCEPT !.quality = q] : q \in Qualities}]
    \cup [valid : {TRUE}, fix : {[lat |-> -33868820, lng |-> 151209290]}, burst : {5},
          more : {[AllValid EXCEPT !.alt = [valid |-> TRUE, value |-> -4]]}]

\* snapshots for the satellite and speed views: HDOP on both sides of each
\* class boundary, speed on both sides of 1.0 km/h, course valid or not
ViewHdops ==
  { NoValue } \cup { [valid |-> TRUE, value |-> v] : v \in {99, 100, 199, 200, 499, 500, 501} }
ViewSpeeds ==
  { NoValue } \cup { [valid |-> TRUE, value |-> v] : v \in {0, 999, 1000, 1001, 36000} }
ViewCourses == { NoValue, [valid |-> TRUE, value |-> 9000] }
ViewFeed ==
  [valid : {TRUE}, fix : {[lat |-> 37422000, lng |-> -122084000]}, burst : {5},
   more : {[NoMore EXCEPT !.hdop = h] : h \in ViewHdops}]
    \cup [valid : {TRUE}, fix : {[lat |-> 37422000, lng |-> -122084000]}, burst : {5},
          more : {[NoMore EXCEPT !.speed = v, !.course = c] :
                    v \in ViewSpeeds, c \in ViewCourses}]

\* what the Preferences calls of one write can do: putUChar stores the byte
\* or not; each of the two putDouble calls stores its value or not
BrightWrites == BOOLEAN
PositionWrites == [lat : BOOLEAN, lng : BOOLEAN]
\* a store that takes every write
BrightStored == {TRUE}
PositionStored == {[lat |-> TRUE, lng |-> TRUE]}

\* a button that is clicked or left alone, never held
ClickOrNone == [hold : {FALSE}, click : BOOLEAN]

\* bytes 4 and 5 of the Bluetooth MAC address
OneMac == { <<26, 255>> }
Macs == { <<0, 0>>, <<26, 255>>, <<171, 205>> }

\* a button that is held or left alone, never clicked
HoldOrNone == [hold : BOOLEAN, click : {FALSE}]

\* contents of the "gps" NVS namespace found at boot
NvsAtBoot ==
  { [hasLat |-> FALSE, lat |-> 0, lng |-> 0, hasBright |-> FALSE, bright |-> 0],
    [hasLat |-> TRUE, lat |-> 37422000, lng |-> -122084000, hasBright |-> TRUE, bright |-> 1],
    [hasLat |-> TRUE, lat |-> 0, lng |-> 0, hasBright |-> TRUE, bright |-> 7] }

VARIABLES
  pc,                \* position of the main loop inside loop()
  iter,              \* completed loop iterations
  millis,            \* the value millis() returns
  clock,             \* ms elapsed since loop() was first entered
  btn,               \* what AtomS3.update() reported this iteration
  currentMode,
  brightnessIndex,
  nvs,               \* the "gps" Preferences namespace
  gps,               \* decoder state: location validity/value, charsProcessed
  screen,            \* what the display shows
  lastLat, lastLng, hasLastPosition, lastSaveTime,
  bleConnected, bleConnectedCount, lastBleTransmit, pTxCharacteristic,
  radioPc,           \* position of the radio task inside its callback
  connectAt,         \* clock at which onConnect entered delay(100)
  advStarts,         \* calls of startAdvertising()/pAdvertising->start()
  obs                \* observations of the outputs (notify calls, store writes)

vars == << pc, iter, millis, clock, btn, currentMode, brightnessIndex, nvs, gps, screen,
           lastLat, lastLng, hasLastPosition, lastSaveTime,
           bleConnected, bleConnectedCount, lastBleTransmit, pTxCharacteristic,
           radioPc, connectAt, advStarts, obs >>

loopVars == << pc, iter, millis, clock, btn, currentMode, brightnessIndex, nvs, gps, screen,
               lastLat, lastLng, hasLastPosition, lastSaveTime, lastBleTransmit >>
radioVars == << bleConnected, bleConnectedCount, pTxCharacteristic, radioPc, connectAt, advStarts >>

\* ------------------------------------------------------------------ helpers
\* the clock at power-on: stands for an event that has not happened (an
\* unsigned long that starts at 0 reads as an event at power-on)
None == -SETUP_DELAY

Min(a, b) == IF a < b THEN a ELSE b

\* printf("%10.5f"): a microdegree value rounded to five decimals, half away
\* from zero, kept in units of 1e-5 degree
Fmt5(x) == IF x >= 0 THEN (x + 5) \div 10 ELSE -((-x + 5) \div 10)

\* ------------------------------------------------------- sentence encoder
\* sentences are sequences of bytes; the characters the encoder can emit
Ord(c) ==
  CASE c = "LF" -> 10 [] c = "CR" -> 13
    [] c = "$" -> 36 [] c = "*" -> 42 [] c = "," -> 44 [] c = "-" -> 45 [] c = "." -> 46
    [] c = "0" -> 48 [] c = "1" -> 49 [] c = "2" -> 50 [] c = "3" -> 51 [] c = "4" -> 52
    [] c = "5" -> 53 [] c = "6" -> 54 [] c = "7" -> 55 [] c = "8" -> 56 [] c = "9" -> 57
    [] c = "A" -> 65 [] c = "E" -> 69 [] c = "G" -> 71 [] c = "M" -> 77 [] c = "N" -> 78
    [] c = "O" -> 79 [] c = "P" -> 80 [] c = "S" -> 83 [] c = "T" -> 84 [] c = "W" -> 87
    [] c = "m" -> 109 [] c = "o" -> 111 [] c = "t" -> 116

Str(cs) == [i \in 1 .. Len(cs) |-> Ord(cs[i])]

\* one decimal digit, one uppercase hexadecimal digit
Digit(d) == Ord("0") + d
HexDigit(d) == IF d < 10 THEN Ord("0") + d ELSE Ord("A") + (d - 10)

\* %d of a natural number
RECURSIVE Dec(_)
Dec(n) == IF n < 10 THEN << Digit(n) >> ELSE Dec(n \div 10) \o << Digit(n % 10) >>

\* zero padding on the left up to width w
RECURSIVE Pad(_, _)
Pad(s, w) == IF Len(s) >= w THEN s ELSE Pad(<< Ord("0") >> \o s, w)

\* %d in place of %02d: no padding
FmtDNoPad(n, w) == Dec(n)

\* %0wd of a natural number
FmtD(n, w) == Pad(Dec(n), w)

\* %.1f of a value given in hundredths; the values fed to it are never half
\* way between two tenths
FmtF1(x) ==
  LET a == IF x < 0 THEN -x ELSE x
      t == (a + 5) \div 10
  IN (IF x < 0 THEN << Ord("-") >> ELSE << >>)
       \o Dec(t \div 10) \o << Ord(".") >> \o << Digit(t % 10) >>

\* %09.6f of a value given in millionths
FmtF6(x) == Pad(Dec(x \div 10^6) \o << Ord(".") >> \o FmtD(x % 10^6, 6), 9)

\* %02X of a byte
FmtX2(b) == << HexDigit(b \div 16), HexDigit(b % 16) >>

\* a ^ b on bytes (uint8_t), bit by bit
ByteBits == 8
RECURSIVE XorBits(_, _, _)
XorBits(a, b, n) ==
  IF n = 0 THEN 0
  ELSE ((a + b) % 2) + 2 * XorBits(a \div 2, b \div 2, n - 1)

XorTable ==
  [a \in 0 .. (2^ByteBits - 1) |-> [b \in 0 .. (2^ByteBits - 1) |-> XorBits(a, b, ByteBits)]]

Xor(a, b) == XorTable[a][b]

\* the loop of lines 509-511 from byte i on, with the checksum so far
RECURSIVE ChecksumFrom(_, _, _)
ChecksumFrom(s, i, acc) ==
  IF acc < 0 \/ i > Len(s) \/ s[i] = Ord("*") THEN acc
  ELSE ChecksumFrom(s, i + 1, Xor(acc, s[i]))

\* a checksum that takes the leading '$' in
calcNmeaChecksumWithDollar(sentence) == ChecksumFrom(sentence, 1, 0)

\* lines 506-513: from the second byte up to the first '*' or the end
calcNmeaChecksum(sentence) == ChecksumFrom(sentence, 2, 0)

\* String::replace("**", "*"), left to right, from byte i on
RECURSIVE ReplaceFrom(_, _)
ReplaceFrom(s, i) ==
  IF i > Len(s) THEN << >>
  ELSE IF i < Len(s) /\ s[i] = Ord("*") /\ s[i + 1] = Ord("*")
    THEN << s[i] >> \o ReplaceFrom(s, i + 2)
    ELSE << s[i] >> \o ReplaceFrom(s, i + 1)

ReplaceStars(s) == ReplaceFrom(s, 1)

\* the literal parts of the templates of lines 518, 572, 579 and 647
CRLF == << Ord("CR"), Ord("LF") >>
Comma == << Ord(",") >>
ZeroTime == Str(<< "0", "0", "0", "0", "0", "0", ".", "0", "0", "0" >>)
GGAHead == Str(<< "$", "G", "P", "G", "G", "A", "," >>)
GGATail == Str(<< ",", "M", ",", "0", ".", "0", ",", "M", ",", ",", "*" >>)
InfoHead == Str(<< "$", "P", "A", "T", "O", "M", "," >>)
NamePrefix == Str(<< "A", "t", "o", "m", "S", "3", "-", "G", "P", "S", "-" >>)

\* lines 576-582, 648-652: checksum, CRLF, and the replace
Frame(sentence) ==
  ReplaceStars(sentence \o FmtX2(calcNmeaChecksum(sentence)) \o CRLF)

\* the coordinate converted without fabs(): the sign stays in the digits
DegMinSigned(x, sub, degWidth) ==
  LET a == IF x < 0 THEN -x ELSE x
      min == (a % 10^6) * 60 + (sub * 60 + 500) \div 1000
      sign == IF x < 0 THEN << Ord("-") >> ELSE << >>
  IN sign \o FmtD(a \div 10^6, degWidth) \o sign \o FmtF6(min)

\* lines 540-544, 546-550: degrees and minutes of a coordinate of x
\* microdegrees and sub nanodegrees of magnitude; %09.6f rounds the minutes
\* to millionths
DegMin(x, sub, degWidth) ==
  LET a == IF x < 0 THEN -x ELSE x
      min == (a % 10^6) * 60 + (sub * 60 + 500) \div 1000
  IN FmtD(a \div 10^6, degWidth) \o FmtF6(min)

\* the initialisers of lines 525-526, in hundredths
HDOP_DEFAULT == 9990

\* an invalid satellite count left empty
SatsFieldEmpty(g) == IF g.sats.valid THEN FmtD(g.sats.value, 2) ELSE << >>

\* lines 524, 555-558, 572: the satellite count, %02d
SatsField(g) == FmtD(IF g.sats.valid THEN g.sats.value ELSE 0, 2)

\* the code of the decoder's fix-quality class passed on
FixQualityOfClass(g) ==
  IF ~g.locValid THEN 0
  ELSE IF g.quality = "DGPS" THEN 2
  ELSE IF g.quality = "RTK" THEN 4
  ELSE IF g.quality = "FloatRTK" THEN 5
  ELSE 1

\* lines 523, 535, 553: the fix-quality code
FixQuality(g) == IF g.locValid THEN 1 ELSE 0

\* lines 516-585; time as h, m, s, centiseconds; hdop and altitude in
\* hundredths
generateGGA(g) ==
  LET timeStr == IF g.time.valid
                   THEN FmtD(g.time.h, 2) \o FmtD(g.time.m, 2) \o FmtD(g.time.s, 2)
                          \o << Ord(".") >> \o FmtD(g.time.cs * 10, 3)
                   ELSE ZeroTime
      latStr == IF g.locValid THEN DegMin(g.loc.lat, g.sub.lat, 2) ELSE << >>
      latDir == IF g.locValid /\ g.loc.lat < 0 THEN Ord("S") ELSE Ord("N")
      lonStr == IF g.locValid THEN DegMin(g.loc.lng, g.sub.lng, 3) ELSE << >>
      lonDir == IF g.locValid /\ g.loc.lng < 0 THEN Ord("W") ELSE Ord("E")
      fixQuality == FixQuality(g)
      hdop == IF g.hdop.valid THEN g.hdop.value ELSE HDOP_DEFAULT
      altitude == IF g.alt.valid THEN g.alt.value ELSE 0
      sentence ==
        GGAHead
          \o timeStr \o Comma \o latStr \o Comma \o << latDir >> \o Comma
          \o lonStr \o Comma \o << lonDir >> \o Comma
          \o Dec(fixQuality) \o Comma \o SatsField(g) \o Comma
          \o FmtF1(hdop) \o Comma \o FmtF1(altitude)
          \o GGATail
  IN Frame(sentence)

\* line 592: the device id, two bytes of the MAC address as %02X%02X
DeviceId(mac) == FmtX2(mac[1]) \o FmtX2(mac[2])

\* lines 593, 646-652: $PATOM,<deviceId>,AtomS3-GPS-<deviceId>*XX
DeviceInfo(mac) ==
  Frame(InfoHead \o DeviceId(mac) \o Comma \o NamePrefix \o DeviceId(mac)
          \o << Ord("*") >>)

\* ------------------------------------------------------------------ setup()
\* the decoder before the first byte
GpsAtBoot ==
  [locValid |-> FALSE, loc |-> NoFix, chars |-> 0,
   time |-> NoTime, sats |-> NoValue, hdop |-> NoValue, alt |-> NoValue,
   sub |-> NoSub, quality |-> "GPS", speed |-> NoValue, course |-> NoValue]

\* an absent position key taken for a stored position
LoadPositionAssumed(store) ==
  [lat |-> store.lat, lng |-> store.lng, has |-> TRUE]

\* lines 955-964: the position keys
LoadPosition(store) ==
  IF store.hasLat
    THEN [lat |-> store.lat, lng |-> store.lng,
          has |-> (store.lat # 0 \/ store.lng # 0)]
    ELSE [lat |-> 0, lng |-> 0, has |-> FALSE]

\* the brightness key ignored
LoadBrightnessDefault(store) == 0

\* the stored byte taken as it is
LoadBrightnessUnchecked(store) == IF store.hasBright THEN store.bright ELSE 0

\* lines 965-970: the brightness key
LoadBrightness(store) ==
  IF store.hasBright
    THEN (IF store.bright >= BRIGHTNESS_COUNT THEN 0 ELSE store.bright)
    ELSE 0

\* the observations at the start of a session: nothing sent or written yet,
\* the store read once by setup(); `stored` tells whether an earlier session
\* wrote a valid fix to the store, `aged` whether the session was already
\* older than the fault grace period when the behaviour starts, `sent` the
\* position sentence notified in the current iteration, `infoMsg` the last
\* identification sentence notified, `failed` whether the store refused a
\* write of each kind, `taken` whether it took the last write, `healed`
\* whether a position write was taken after one that was not
ObsAtBoot(boots, stored) ==
  [clicks |-> 0, held |-> FALSE, info |-> 0, disconnects |-> 0,
   ggaAt |-> <<None, None>>, ggaInSession |-> 0, ggaThisIter |-> 0,
   ggaAtConnect |-> None, saveAt |-> <<None, None>>, fixAt |-> None,
   boots |-> boots, stored |-> stored, loads |-> 1, faulted |-> FALSE,
   aged |-> FALSE, sent |-> << >>, infoMsg |-> << >>,
   failed |-> [bright |-> FALSE, position |-> FALSE], taken |-> TRUE,
   healed |-> FALSE]

\* lines 1050-1057: the red "No GPS / Check wiring" screen
NoGpsScreen == [view |-> "nogps", class |-> "none", lat |-> 0, lng |-> 0]

SplashScreen == [view |-> "splash", class |-> "none", lat |-> 0, lng |-> 0]

Init ==
  /\ nvs \in NvsAtBoot
  /\ pc = "input"
  /\ iter = 0
  /\ millis = U32(SETUP_DELAY)
  /\ clock = 0
  /\ btn = [hold |-> FALSE, click |-> FALSE]
  /\ currentMode = MODE_MAIN
  /\ brightnessIndex = LoadBrightness(nvs)
  /\ gps = GpsAtBoot
  /\ screen = SplashScreen
  /\ lastLat = LoadPosition(nvs).lat
  /\ lastLng = LoadPosition(nvs).lng
  /\ hasLastPosition = LoadPosition(nvs).has
  /\ lastSaveTime = U32(0)
  /\ bleConnected = FALSE
  /\ bleConnectedCount = 0
  /\ lastBleTransmit = U32(0)
  /\ pTxCharacteristic = TRUE
  /\ radioPc = "idle"
  /\ connectAt = None
  /\ advStarts = 1
  /\ obs = ObsAtBoot(0, FALSE)

\* a session 2^32 - 100 ms old in which the sensor never delivered a byte and
\* no peer ever connected: millis() is one loop period before its wraparound,
\* the previous iteration has painted the error screen; `clock` counts from
\* this state
InitWrap ==
  /\ nvs \in NvsAtBoot
  /\ pc = "input"
  /\ iter = 0
  /\ millis = Sub32(U32(0), U32(LOOP_DELAY))
  /\ clock = 0
  /\ btn = [hold |-> FALSE, click |-> FALSE]
  /\ currentMode = MODE_MAIN
  /\ brightnessIndex = LoadBrightness(nvs)
  /\ gps = GpsAtBoot
  /\ screen = NoGpsScreen
  /\ lastLat = LoadPosition(nvs).lat
  /\ lastLng = LoadPosition(nvs).lng
  /\ hasLastPosition = LoadPosition(nvs).has
  /\ lastSaveTime = U32(0)
  /\ bleConnected = FALSE
  /\ bleConnectedCount = 0
  /\ lastBleTransmit = U32(0)
  /\ pTxCharacteristic = TRUE
  /\ radioPc = "idle"
  /\ connectAt = None
  /\ advStarts = 1
  /\ obs = [ObsAtBoot(0, FALSE) EXCEPT !.faulted = TRUE, !.aged = TRUE]

\* a power cycle: the globals get their initialisers again, setup() runs
\* again on the store as the previous session left it
Reboot ==
  /\ obs.boots < MaxBoots
  /\ nvs' = nvs
  /\ pc' = "input"
  /\ iter' = 0
  /\ millis' = U32(SETUP_DELAY)
  /\ clock' = 0
  /\ btn' = [hold |-> FALSE, click |-> FALSE]
  /\ currentMode' = MODE_MAIN
  /\ brightnessIndex' = LoadBrightness(nvs)
  /\ gps' = GpsAtBoot
  /\ screen' = SplashScreen
  /\ lastLat' = LoadPosition(nvs).lat
  /\ lastLng' = LoadPosition(nvs).lng
  /\ hasLastPosition' = LoadPosition(nvs).has
  /\ lastSaveTime' = U32(0)
  /\ bleConnected' = FALSE
  /\ bleConnectedCount' = 0
  /\ lastBleTransmit' = U32(0)
  /\ pTxCharacteristic' = TRUE
  /\ radioPc' = "idle"
  /\ connectAt' = None
  /\ advStarts' = 1
  /\ obs' = ObsAtBoot(obs.boots + 1, obs.stored \/ obs.saveAt[2] # None)

\* ------------------------------------------------- loop(): input dispatch
\* the successor without the wrap to MODE_MAIN
NextModeNoWrap(m) == m + 1

NextMode(m) == (m + 1) % MODE_COUNT

NextBrightness(b) == (b + 1) % BRIGHTNESS_COUNT

\* two independent ifs instead of if / else-if
DispatchBoth(hold, click) ==
  (IF hold THEN {"hold"} ELSE {}) \cup (IF click THEN {"click"} ELSE {})

\* lines 996-1010: which branch of the if / else-if runs
Dispatch(hold, click) ==
  IF hold THEN {"hold"} ELSE IF click THEN {"click"} ELSE {}

\* the brightness changed in memory only
PutBrightSkipped(store, b) == store

PutBright(store, b) == [store EXCEPT !.hasBright = TRUE, !.bright = b]

\* lines 993-1010 with the outcome of the store write
InputWith(reports, outcomes) ==
  /\ pc = "input"
  /\ \E r \in reports, ok \in outcomes :
       LET hold == r.hold
           click == r.click
           d == Dispatch(hold, click)
           b == IF "hold" \in d THEN NextBrightness(brightnessIndex)
                                ELSE brightnessIndex
       IN /\ btn' = r
          /\ brightnessIndex' = b
          /\ nvs' = IF "hold" \in d /\ ok THEN PutBright(nvs, b) ELSE nvs
          /\ currentMode' = IF "click" \in d THEN NextMode(currentMode)
                                             ELSE currentMode
          /\ obs' = [obs EXCEPT
                       !.clicks = @ + (IF click /\ ~hold THEN 1 ELSE 0),
                       !.held = @ \/ hold,
                       !.ggaThisIter = 0,
                       !.sent = << >>,
                       !.failed.bright = @ \/ ("hold" \in d /\ ~ok),
                       !.taken = IF "hold" \in d THEN ok ELSE @]
  /\ pc' = "gps"
  /\ UNCHANGED << iter, millis, clock, gps, screen, lastLat, lastLng, hasLastPosition,
                  lastSaveTime, lastBleTransmit >>
  /\ UNCHANGED radioVars

\* the input step on a store that takes every write
Input(reports) == InputWith(reports, BrightStored)

\* ------------------------------------------------ loop(): gps.updateGPS()
UpdateGPS(feed) ==
  /\ pc = "gps"
  /\ \E u \in feed :
       gps' = [locValid |-> u.valid,
               loc |-> IF u.valid THEN u.fix ELSE gps.loc,
               chars |-> Min(gps.chars + u.burst, FAULT_MIN_CHARS),
               time |-> u.more.time, sats |-> u.more.sats,
               hdop |-> u.more.hdop, alt |-> u.more.alt,
               sub |-> IF u.valid THEN u.more.sub ELSE gps.sub,
               quality |-> u.more.quality,
               speed |-> u.more.speed, course |-> u.more.course]
  /\ pc' = "render"
  /\ UNCHANGED << iter, millis, clock, btn, currentMode, brightnessIndex, nvs, screen,
                  lastLat, lastLng, hasLastPosition, lastSaveTime,
                  lastBleTransmit, obs >>
  /\ UNCHANGED radioVars

\* ------------------------------------------------ loop(): updateDisplay()
\* the stored position never shown
CoordLinesLiveOnly(g, has, lat, lng) ==
  IF g.locValid
    THEN [class |-> "live", lat |-> Fmt5(g.loc.lat), lng |-> Fmt5(g.loc.lng)]
    ELSE [class |-> "blank", lat |-> 0, lng |-> 0]

\* lines 724-749: the two coordinate lines of the main view
CoordLines(g, has, lat, lng) ==
  IF g.locValid
    THEN [class |-> "live", lat |-> Fmt5(g.loc.lat), lng |-> Fmt5(g.loc.lng)]
    ELSE IF has
      THEN [class |-> "stale", lat |-> Fmt5(lat), lng |-> Fmt5(lng)]
      ELSE [class |-> "blank", lat |-> 0, lng |-> 0]

\* the class boundaries counted into the lower class
HdopClassClosed(h) ==
  IF ~h.valid THEN "unknown"
  ELSE IF h.value <= 100 THEN "ideal"
  ELSE IF h.value <= 200 THEN "excellent"
  ELSE IF h.value <= 500 THEN "good"
  ELSE "moderate"

\* lines 812-830: the HDOP line of the satellite view, hdop() being the
\* value in hundredths divided by 100
HdopClass(h) ==
  IF ~h.valid THEN "unknown"
  ELSE IF h.value < 100 THEN "ideal"
  ELSE IF h.value < 200 THEN "excellent"
  ELSE IF h.value < 500 THEN "good"
  ELSE "moderate"

\* the speed compared with >= instead of >
HeadingLineAtLeast(g) ==
  IF g.course.valid /\ g.speed.valid /\ g.speed.value >= 1000
    THEN "heading" ELSE "placeholder"

\* lines 937-945: the heading line of the speed view
HeadingLine(g) ==
  IF g.course.valid /\ g.speed.valid /\ g.speed.value > 1000
    THEN "heading" ELSE "placeholder"

ViewName(m) ==
  IF m = MODE_SATELLITES THEN "satellites"
  ELSE IF m = MODE_SPEED_ALT THEN "speedalt"
  ELSE "main"

View(m, g, has, lat, lng) ==
  IF ViewName(m) = "main"
    THEN LET c == CoordLines(g, has, lat, lng)
         IN [view |-> "main", class |-> c.class, lat |-> c.lat, lng |-> c.lng]
    ELSE [view |-> ViewName(m),
          class |-> IF ViewName(m) = "satellites" THEN HdopClass(g.hdop)
                                                  ELSE HeadingLine(g),
          lat |-> 0, lng |-> 0]

\* a render that goes on to the persist step, past the radio transmit
RenderSkipsTransmit ==
  /\ pc = "render"
  /\ screen' = View(currentMode, gps, hasLastPosition, lastLat, lastLng)
  /\ pc' = "persist"
  /\ UNCHANGED << iter, millis, clock, btn, currentMode, brightnessIndex, nvs, gps,
                  lastLat, lastLng, hasLastPosition, lastSaveTime,
                  lastBleTransmit, obs >>
  /\ UNCHANGED radioVars

\* a render that moves on to the next view by itself
RenderCyclesMode ==
  /\ pc = "render"
  /\ screen' = View(currentMode, gps, hasLastPosition, lastLat, lastLng)
  /\ currentMode' = NextMode(currentMode)
  /\ pc' = "tx"
  /\ UNCHANGED << iter, millis, clock, btn, brightnessIndex, nvs, gps,
                  lastLat, lastLng, hasLastPosition, lastSaveTime,
                  lastBleTransmit, obs >>
  /\ UNCHANGED radioVars

Render ==
  /\ pc = "render"
  /\ screen' = View(currentMode, gps, hasLastPosition, lastLat, lastLng)
  /\ pc' = "tx"
  /\ UNCHANGED << iter, millis, clock, btn, currentMode, brightnessIndex, nvs, gps,
                  lastLat, lastLng, hasLastPosition, lastSaveTime,
                  lastBleTransmit, obs >>
  /\ UNCHANGED radioVars

\* ------------------------------------------------ loop(): radio transmit
\* the comparison written >= instead of >
TransmitDueAtInterval(connected, t, last) ==
  connected /\ (Gt32(Sub32(t, last), BLE_TRANSMIT_INTERVAL)
                  \/ Sub32(t, last) = U32(BLE_TRANSMIT_INTERVAL))

\* the interval test left out
TransmitDueWhenConnected(connected, t, last) == connected

\* the elapsed time taken on numbers that do not wrap: nothing is due while
\* the clock reads less than the time of the last transmission
TransmitDueNoWrap(connected, t, last) ==
  /\ connected
  /\ (t[1] > last[1] \/ (t[1] = last[1] /\ t[2] >= last[2]))
  /\ Gt32(Sub32(t, last), BLE_TRANSMIT_INTERVAL)

\* line 1019
TransmitDue(connected, t, last) ==
  connected /\ Gt32(Sub32(t, last), BLE_TRANSMIT_INTERVAL)

TxCheck ==
  /\ pc = "tx"
  /\ IF TransmitDue(bleConnected, millis, lastBleTransmit)
       THEN /\ lastBleTransmit' = millis
            /\ pc' = "send"
       ELSE /\ lastBleTransmit' = lastBleTransmit
            /\ pc' = "persist"
  /\ UNCHANGED << iter, millis, clock, btn, currentMode, brightnessIndex, nvs, gps, screen,
                  lastLat, lastLng, hasLastPosition, lastSaveTime, obs >>
  /\ UNCHANGED radioVars

\* lines 631, 643: the guard of sendBleGGA and of sendBleDeviceInfo
CanSend(connected, tx) == connected /\ tx

\* sendBleGGA, line 631: the guard
SendGuard ==
  /\ pc = "send"
  /\ pc' = IF CanSend(bleConnected, pTxCharacteristic) THEN "notify" ELSE "persist"
  /\ UNCHANGED << iter, millis, clock, btn, currentMode, brightnessIndex, nvs, gps, screen,
                  lastLat, lastLng, hasLastPosition, lastSaveTime,
                  lastBleTransmit, obs >>
  /\ UNCHANGED radioVars

\* sendBleGGA, lines 633-635: encode, setValue, notify; with `sniff` the
\* bytes handed to the radio are recorded
NotifyGGA(sniff) ==
  /\ pc = "notify"
  /\ obs' = [obs EXCEPT !.ggaAt = <<obs.ggaAt[2], clock>>,
                        !.ggaInSession = @ + (IF bleConnected THEN 1 ELSE 0),
                        !.ggaThisIter = @ + 1,
                        !.sent = IF sniff THEN generateGGA(gps) ELSE << >>]
  /\ pc' = "persist"
  /\ UNCHANGED << iter, millis, clock, btn, currentMode, brightnessIndex, nvs, gps, screen,
                  lastLat, lastLng, hasLastPosition, lastSaveTime,
                  lastBleTransmit >>
  /\ UNCHANGED radioVars

\* ------------------------------------------- loop(): position persistence
\* the comparison written >= instead of >
SaveDueAtInterval(valid, t, last) ==
  valid /\ (Gt32(Sub32(t, last), SAVE_INTERVAL) \/ Sub32(t, last) = U32(SAVE_INTERVAL))

\* the validity test left out
SaveDueAnyFix(valid, t, last) == Gt32(Sub32(t, last), SAVE_INTERVAL)

\* lines 1025, 1030
SaveDue(valid, t, last) == valid /\ Gt32(Sub32(t, last), SAVE_INTERVAL)

PutPosition(store, lat, lng) ==
  [store EXCEPT !.hasLat = TRUE, !.lat = lat, !.lng = lng]

\* lines 1037-1038: the two putDouble calls, each storing its value or not
PutDoubles(store, lat, lng, ok) ==
  IF ok.lat /\ ok.lng
    THEN PutPosition(store, lat, lng)
    ELSE [store EXCEPT !.hasLat = @ \/ ok.lat,
                       !.lat = IF ok.lat THEN lat ELSE @,
                       !.lng = IF ok.lng THEN lng ELSE @]

\* the mirror updated only when the store took the write
PersistWithRollback(outcomes) ==
  /\ pc = "persist"
  /\ IF SaveDue(gps.locValid, millis, lastSaveTime)
       THEN \E ok \in outcomes :
            /\ lastSaveTime' = millis
            /\ lastLat' = IF ok.lat /\ ok.lng THEN gps.loc.lat ELSE lastLat
            /\ lastLng' = IF ok.lat /\ ok.lng THEN gps.loc.lng ELSE lastLng
            /\ hasLastPosition' = IF ok.lat /\ ok.lng THEN TRUE ELSE hasLastPosition
            /\ nvs' = PutDoubles(nvs, gps.loc.lat, gps.loc.lng, ok)
            /\ obs' = [obs EXCEPT !.saveAt = <<obs.saveAt[2], clock>>,
                                  !.fixAt = clock,
                                  !.failed.position = @ \/ ~(ok.lat /\ ok.lng),
                                  !.taken = ok.lat /\ ok.lng,
                                  !.healed = @ \/ (ok.lat /\ ok.lng
                                                     /\ obs.failed.position)]
       ELSE /\ UNCHANGED << lastSaveTime, lastLat, lastLng, hasLastPosition, nvs >>
            /\ obs' = [obs EXCEPT !.fixAt = IF gps.locValid THEN clock ELSE @]
  /\ pc' = "fault"
  /\ UNCHANGED << iter, millis, clock, btn, currentMode, brightnessIndex, gps, screen,
                  lastBleTransmit >>
  /\ UNCHANGED radioVars

\* lines 1024-1046 with the outcome of the store write
PersistWith(outcomes) ==
  /\ pc = "persist"
  /\ IF SaveDue(gps.locValid, millis, lastSaveTime)
       THEN \E ok \in outcomes :
            /\ lastSaveTime' = millis
            /\ lastLat' = gps.loc.lat
            /\ lastLng' = gps.loc.lng
            /\ hasLastPosition' = TRUE
            /\ nvs' = PutDoubles(nvs, lastLat', lastLng', ok)
            /\ obs' = [obs EXCEPT !.saveAt = <<obs.saveAt[2], clock>>,
                                  !.fixAt = clock,
                                  !.failed.position = @ \/ ~(ok.lat /\ ok.lng),
                                  !.taken = ok.lat /\ ok.lng,
                                  !.healed = @ \/ (ok.lat /\ ok.lng
                                                     /\ obs.failed.position)]
       ELSE /\ UNCHANGED << lastSaveTime, lastLat, lastLng, hasLastPosition, nvs >>
            /\ obs' = [obs EXCEPT !.fixAt = IF gps.locValid THEN clock ELSE @]
  /\ pc' = "fault"
  /\ UNCHANGED << iter, millis, clock, btn, currentMode, brightnessIndex, gps, screen,
                  lastBleTransmit >>
  /\ UNCHANGED radioVars

\* the persist step on a store that takes every write
Persist == PersistWith(PositionStored)

\* ------------------------------------------------ loop(): liveness fault
\* line 1049
\* the byte count left out of the test
NoDataAfterGrace(t, chars) == Gt32(t, FAULT_GRACE)

NoData(t, chars) == Gt32(t, FAULT_GRACE) /\ chars < FAULT_MIN_CHARS

FaultCheck ==
  /\ pc = "fault"
  /\ screen' = IF NoData(millis, gps.chars) THEN NoGpsScreen ELSE screen
  /\ obs' = [obs EXCEPT !.faulted = @ \/ NoData(millis, gps.chars)]
  /\ pc' = "delay"
  /\ UNCHANGED << iter, millis, clock, btn, currentMode, brightnessIndex, nvs, gps,
                  lastLat, lastLng, hasLastPosition, lastSaveTime,
                  lastBleTransmit >>
  /\ UNCHANGED radioVars

\* line 1061: delay(100)
Delay(periods) ==
  /\ pc = "delay"
  /\ iter < MaxIter
  /\ \E d \in periods :
       /\ millis' = Add32(millis, d)
       /\ clock' = clock + d
  /\ iter' = iter + 1
  /\ pc' = "input"
  /\ UNCHANGED << btn, currentMode, brightnessIndex, nvs, gps, screen,
                  lastLat, lastLng, hasLastPosition, lastSaveTime,
                  lastBleTransmit, obs >>
  /\ UNCHANGED radioVars

\* --------------------------------------------------------- radio callbacks
\* onConnect that never sets the connected flag
OnConnectNoFlag ==
  /\ radioPc = "idle"
  /\ ~bleConnected
  /\ bleConnectedCount < MaxConnects
  /\ bleConnectedCount' = bleConnectedCount + 1
  /\ radioPc' = "delay"
  /\ connectAt' = clock
  /\ obs' = [obs EXCEPT !.ggaInSession = 0, !.ggaAtConnect = obs.ggaAt[2]]
  /\ UNCHANGED << bleConnected, pTxCharacteristic, advStarts >>
  /\ UNCHANGED loopVars

\* ServerCallbacks::onConnect, lines 489-493: up to the delay
OnConnect ==
  /\ radioPc = "idle"
  /\ ~bleConnected
  /\ bleConnectedCount < MaxConnects
  /\ bleConnected' = TRUE
  /\ bleConnectedCount' = bleConnectedCount + 1
  /\ radioPc' = "delay"
  /\ connectAt' = clock
  /\ obs' = [obs EXCEPT !.ggaInSession = 0, !.ggaAtConnect = obs.ggaAt[2]]
  /\ UNCHANGED << pTxCharacteristic, advStarts >>
  /\ UNCHANGED loopVars

\* ServerCallbacks::onConnect, line 494: sendBleDeviceInfo() after the delay
OnConnectInfo(macs, sniff) ==
  /\ radioPc = "delay"
  /\ clock - connectAt >= CONNECT_DELAY
  /\ \E mac \in macs :
       obs' = IF CanSend(bleConnected, pTxCharacteristic)
                THEN [obs EXCEPT !.info = @ + 1,
                                 !.infoMsg = IF sniff THEN DeviceInfo(mac) ELSE << >>]
                ELSE obs
  /\ radioPc' = "idle"
  /\ UNCHANGED << bleConnected, bleConnectedCount, pTxCharacteristic, connectAt,
                  advStarts >>
  /\ UNCHANGED loopVars

\* onDisconnect without the restart of advertising
OnDisconnectNoAdvertising ==
  /\ radioPc = "idle"
  /\ bleConnected
  /\ bleConnected' = FALSE
  /\ obs' = [obs EXCEPT !.disconnects = @ + 1]
  /\ UNCHANGED << bleConnectedCount, pTxCharacteristic, radioPc, connectAt, advStarts >>
  /\ UNCHANGED loopVars

\* ServerCallbacks::onDisconnect, lines 497-502
OnDisconnect ==
  /\ radioPc = "idle"
  /\ bleConnected
  /\ bleConnected' = FALSE
  /\ advStarts' = advStarts + 1
  /\ obs' = [obs EXCEPT !.disconnects = @ + 1]
  /\ UNCHANGED << bleConnectedCount, pTxCharacteristic, radioPc, connectAt >>
  /\ UNCHANGED loopVars

\* one step of loop() under an environment: button reports, sensor feed,
\* iteration periods
Loop(reports, feed, periods) ==
  \/ Input(reports)
  \/ UpdateGPS(feed)
  \/ Render
  \/ TxCheck
  \/ SendGuard
  \/ NotifyGGA(FALSE)
  \/ Persist
  \/ FaultCheck
  \/ Delay(periods)

\* a peer that connects and disconnects at any time
AnyPeer ==
  \/ OnConnect
  \/ OnConnectInfo(OneMac, FALSE)
  \/ OnDisconnect

\* a peer that connects, if at all, before the first iteration and stays
EarlyPeer ==
  \/ (iter = 0 /\ pc = "input" /\ OnConnect)
  \/ OnConnectInfo(OneMac, FALSE)

\* the same peer with a sniffer on the link, the device being any of several
EarlyPeerOfAny ==
  \/ (iter = 0 /\ pc = "input" /\ OnConnect)
  \/ OnConnectInfo(Macs, TRUE)

\* radio: any peer, a device left alone indoors (no button touched, no fix)
Next ==
  \/ Loop(NoPress, NoFixFeed, ShortPeriods)
  \/ AnyPeer

Spec == Init /\ [][Next]_vars

\* input: every button report, a fix that comes and goes, long iterations
NextUI ==
  \/ Loop(Presses, OneFixFeed, LongPeriods)
  \/ EarlyPeer

SpecUI == Init /\ [][NextUI]_vars

\* the same device and peer, around the wraparound of millis()
SpecWrap == InitWrap /\ [][Next]_vars

\* store: no button touched, every sensor feed, long iterations
NextStore ==
  \/ Loop(NoPress, FullFeed, LongPeriods)
  \/ EarlyPeer

SpecStore == Init /\ [][NextStore]_vars

\* power cycles: a held button, a sensor that is silent or has a fix, slow
\* iterations
NextBoot ==
  \/ Loop(HoldOrNone, SilentOrFix, SlowPeriods)
  \/ EarlyPeer
  \/ Reboot

SpecBoot == Init /\ [][NextBoot]_vars

\* encoder: every snapshot, a peer connected from the start, a transmission
\* in every iteration after the first, the sentences recorded
NextEnc ==
  \/ Input(NoPress)
  \/ UpdateGPS(EncFeed)
  \/ Render
  \/ TxCheck
  \/ SendGuard
  \/ NotifyGGA(TRUE)
  \/ Persist
  \/ FaultCheck
  \/ Delay(TransmitPeriods)
  \/ EarlyPeerOfAny

SpecEnc == Init /\ [][NextEnc]_vars

\* views: a button that is clicked, a sensor with a fix and every HDOP,
\* speed and course of the view feed
NextView ==
  \/ Loop(ClickOrNone, ViewFeed, ShortPeriods)
  \/ EarlyPeer

SpecView == Init /\ [][NextView]_vars

\* failing store: a held button, a sensor that is silent or has a fix, slow
\* iterations, every write taken or not
NextFlaky ==
  \/ InputWith(HoldOrNone, BrightWrites)
  \/ UpdateGPS(SilentOrFix)
  \/ Render
  \/ TxCheck
  \/ SendGuard
  \/ NotifyGGA(FALSE)
  \/ PersistWith(PositionWrites)
  \/ FaultCheck
  \/ Delay(SlowPeriods)
  \/ EarlyPeer

SpecFlaky == Init /\ [][NextFlaky]_vars

\* writers: every button report, a fix that comes and goes, slow iterations,
\* a peer connected from the start, the sentences recorded
NextOwn ==
  \/ Input(Presses)
  \/ UpdateGPS(OneFixFeed)
  \/ Render
  \/ TxCheck
  \/ SendGuard
  \/ NotifyGGA(TRUE)
  \/ Persist
  \/ FaultCheck
  \/ Delay(SlowPeriods)
  \/ EarlyPeerOfAny

SpecOwn == Init /\ [][NextOwn]_vars

\* cadences around the wraparound of millis(): no button touched, a fix
\* that comes and goes, iterations of every length, a peer that stays
NextCadence ==
  \/ Loop(NoPress, OneFixFeed, AllPeriods)
  \/ EarlyPeer

SpecCadence == InitWrap /\ [][NextCadence]_vars

TypeOK ==
  /\ pc \in {"input", "gps", "render", "tx", "send", "notify", "persist", "fault", "delay"}
  /\ radioPc \in {"idle", "delay"}
  /\ currentMode \in 0 .. (MODE_COUNT - 1)
  /\ brightnessIndex \in 0 .. (BRIGHTNESS_COUNT - 1)
  /\ bleConnected \in BOOLEAN

\* ===================================================================== claims

\* a notify call of each kind, seen as a step
InfoSent == obs'.info # obs.info
PositionSent == obs'.ggaAt # obs.ggaAt
ConnectEvent == bleConnectedCount' # bleConnectedCount
DisconnectEvent == obs'.disconnects # obs.disconnects

\* C1: every connect event gets exactly one identification sentence, sent by
\* the onConnect callback itself: when the callback has returned the number
\* of identification sentences equals the number of connect events, while it
\* runs exactly one is outstanding, and no step of the loop sends one.
C1_OneInfoPerConnect ==
  /\ [](radioPc = "idle" => obs.info = bleConnectedCount)
  /\ [](radioPc = "delay" => obs.info = bleConnectedCount - 1)
  /\ [][InfoSent => /\ radioPc = "delay" /\ radioPc' = "idle"
                    /\ obs'.info = obs.info + 1
                    /\ UNCHANGED loopVars]_vars

C1_Witness ==
  /\ bleConnectedCount = 2 /\ obs.info = 2 /\ radioPc = "idle"
  /\ obs.disconnects = 2 /\ obs.ggaAt[2] = None

\* C2: in a session whose identification sentence is still to be sent, no
\* position sentence has been sent.
C2_InfoBeforePosition == ~(radioPc = "delay" /\ obs.ggaInSession > 0)

\* C3: every notify call, of either kind, is made while the connection
\* state is Connected.
C3_NotifyOnlyConnected == [][(InfoSent \/ PositionSent) => bleConnected]_vars

\* C4: two successive position sentences, in one session or across a
\* reconnect, are more than 1000 ms apart, and one loop iteration sends at
\* most one.
C4_PositionCadence ==
  /\ obs.ggaAt[1] # None => obs.ggaAt[2] - obs.ggaAt[1] > BLE_TRANSMIT_INTERVAL
  /\ obs.ggaThisIter <= 1

C4_Witness ==
  /\ obs.ggaAt[1] # None
  /\ bleConnectedCount = 2 /\ bleConnected /\ obs.ggaInSession = 1

\* C5 as stated: a session that ends less than 1000 ms after its connect
\* event has sent no position sentence.
C5_ShortSessionSilent ==
  [][(DisconnectEvent /\ clock - connectAt < BLE_TRANSMIT_INTERVAL)
       => obs.ggaInSession = 0]_vars

\* time since the position sentence that preceded the session; lastBleTransmit
\* starts at 0, so without one it is the uptime
SincePrevious == clock - obs.ggaAtConnect

\* C5 as amended: a session that ends no more than 1000 ms after the
\* previous position sentence (after boot, if there was none) has sent no
\* position sentence.
C5_SilentWithinInterval ==
  [][(DisconnectEvent /\ SincePrevious <= BLE_TRANSMIT_INTERVAL)
       => obs.ggaInSession = 0]_vars

C5_Witness ==
  /\ ~bleConnected /\ obs.disconnects = 2
  /\ obs.ggaAtConnect # None
  /\ clock - obs.ggaAtConnect <= BLE_TRANSMIT_INTERVAL
  /\ clock > connectAt
  /\ obs.ggaInSession = 0

\* C6: the connection state changes only in a connect event (to Connected)
\* and in a disconnect event (to Advertising), each event changes it, and
\* advertising has been started once at setup and once per disconnect event.
C6_TwoStateMachine ==
  /\ [](advStarts = obs.disconnects + 1)
  /\ [][bleConnected' # bleConnected => (ConnectEvent \/ DisconnectEvent)]_vars
  /\ [][ConnectEvent => (~bleConnected /\ bleConnected')]_vars
  /\ [][DisconnectEvent => (bleConnected /\ ~bleConnected')]_vars
  /\ [][(ConnectEvent \/ DisconnectEvent) => UNCHANGED loopVars]_vars

C6_Witness == obs.disconnects = 2 /\ advStarts = 3 /\ ~bleConnected

\* the input step of an iteration, seen as a step
InputStep == pc = "input" /\ pc' = "gps"
ShortPress == InputStep /\ btn'.click /\ ~btn'.hold
LongPress == InputStep /\ btn'.hold

\* C7: the display mode changes only in a short press, to (mode+1) mod 3;
\* after N short presses from Main the mode is N mod 3, so Main exactly when
\* N is a multiple of 3; a long press leaves the mode alone.
C7_ModeCycle ==
  /\ [](currentMode = obs.clicks % MODE_COUNT)
  /\ [][currentMode' # currentMode
          => (ShortPress /\ currentMode' = (currentMode + 1) % MODE_COUNT)]_vars
  /\ [][ShortPress => currentMode' # currentMode]_vars
  /\ [][LongPress => currentMode' = currentMode]_vars

C7_Witness ==
  /\ obs.clicks = 3 /\ currentMode = MODE_MAIN
  /\ pc = "gps" /\ btn.hold /\ ~btn.click /\ obs.held

\* C8: an iteration that reports a hold changes the brightness index and
\* not the display mode, also when it reports a click as well; no step
\* changes both.
C8_HoldExcludesClick ==
  /\ [][LongPress => (currentMode' = currentMode
                        /\ brightnessIndex' # brightnessIndex)]_vars
  /\ [][~(currentMode' # currentMode /\ brightnessIndex' # brightnessIndex)]_vars

C8_Witness ==
  /\ pc = "gps" /\ btn.hold /\ btn.click
  /\ obs.clicks = 1 /\ currentMode = MODE_SATELLITES

\* C9: a long press moves the brightness index to (index+1) mod 3 and stores
\* the new index under the brightness key in the same step; once a long
\* press has happened the stored value equals the index in memory.
C9_BrightnessPersisted ==
  /\ [][LongPress => /\ brightnessIndex' = (brightnessIndex + 1) % BRIGHTNESS_COUNT
                     /\ nvs'.hasBright
                     /\ nvs'.bright = brightnessIndex']_vars
  /\ [](obs.held => (nvs.hasBright /\ nvs.bright = brightnessIndex))

C9_Witness ==
  /\ pc = "gps" /\ btn.hold /\ obs.held
  /\ ~gps.locValid /\ ~nvs.hasLat /\ obs.saveAt[2] = None
  /\ nvs.hasBright /\ nvs.bright = 1 /\ brightnessIndex = 1

\* a write of the position keys, seen as a step
PositionWritten == obs'.saveAt # obs.saveAt
PositionKeysChanged ==
  nvs'.hasLat # nvs.hasLat \/ nvs'.lat # nvs.lat \/ nvs'.lng # nvs.lng

\* C10: the position keys are written only by the persist step of an
\* iteration whose live position is valid; the write stores the live position
\* and leaves lastLat/lastLng equal to the stored values with hasLastPosition
\* set; two successive writes are more than 60000 ms apart.
C10_PositionPersistence ==
  /\ [][PositionKeysChanged => PositionWritten]_vars
  /\ [][PositionWritten => /\ pc = "persist" /\ gps.locValid
                           /\ nvs'.hasLat
                           /\ nvs'.lat = gps.loc.lat /\ nvs'.lng = gps.loc.lng
                           /\ lastLat' = nvs'.lat /\ lastLng' = nvs'.lng
                           /\ hasLastPosition']_vars
  /\ [](obs.saveAt[1] # None => obs.saveAt[2] - obs.saveAt[1] > SAVE_INTERVAL)

C10_Witness ==
  /\ obs.saveAt[1] # None
  /\ nvs.lat = 37422000 /\ lastLat = 37422000 /\ lastLng = -122084000

\* the persist step of an iteration, seen as a step
PersistStep == pc = "persist" /\ pc' = "fault"

\* C11: a valid fix observed by the persist step is written to the store when
\* it is the first valid fix of the session or comes more than 60000 ms after
\* the previous valid fix.
C11_EachFixWritten ==
  [][(PersistStep /\ gps.locValid
        /\ (obs.fixAt = None \/ clock - obs.fixAt > SAVE_INTERVAL))
       => PositionWritten]_vars

\* C12: hasLastPosition, once true, stays true, and after setup lastLat and
\* lastLng change only in the persist step of an iteration whose live
\* position is valid.
C12_MirrorMonotone ==
  /\ [][hasLastPosition => hasLastPosition']_vars
  /\ [][(lastLat' # lastLat \/ lastLng' # lastLng)
          => (PersistStep /\ gps.locValid)]_vars

C12_Witness ==
  /\ hasLastPosition /\ lastLat = 37422000 /\ nvs.lat = 37422000
  /\ obs.saveAt[1] # None
  /\ pc = "render" /\ ~gps.locValid /\ gps.loc.lat = 0

\* the iteration has rendered: the screen is the one this session drew
Rendered == iter > 0 \/ pc \notin {"input", "gps", "render"}

\* C13: in a session that follows one that stored a valid fix, as long as no
\* sensor byte has been received the main view shows the stored coordinates
\* in the stale class.
C13_StaleAfterRestart ==
  (obs.stored /\ gps.chars = 0 /\ Rendered /\ currentMode = MODE_MAIN)
    => screen = [view |-> "main", class |-> "stale",
                 lat |-> Fmt5(nvs.lat), lng |-> Fmt5(nvs.lng)]

\* the session has just started: setup() has returned, loop() has not run
AtStartup == iter = 0 /\ pc = "input"

RebootStep == obs'.boots # obs.boots

\* C15: after a power cycle the brightness index is the one the last long
\* press of the previous session left (and wrote), and lastLat/lastLng are
\* the values of the last position write of the previous session.
C15_SurvivesReboot ==
  /\ [][(RebootStep /\ obs.held)
          => (brightnessIndex' = brightnessIndex /\ brightnessIndex' = nvs.bright)]_vars
  /\ [][(RebootStep /\ obs.saveAt[2] # None)
          => /\ lastLat' = lastLat /\ lastLng' = lastLng
             /\ lastLat' = nvs.lat /\ lastLng' = nvs.lng]_vars

C15_Witness ==
  /\ obs.boots = 1 /\ AtStartup /\ obs.stored
  /\ brightnessIndex = 2 /\ lastLat = 37422000 /\ lastLng = -122084000

\* the fault condition in terms of the uptime
Silent ==
  /\ obs.aged \/ clock + SETUP_DELAY > FAULT_GRACE
  /\ gps.chars < FAULT_MIN_CHARS

\* C16: at the end of every iteration the error screen is displayed exactly
\* when the uptime exceeds 5000 ms and fewer than 10 bytes have been
\* processed, otherwise the view of the current mode is; the fault check of
\* an iteration that has 10 bytes leaves the rendered view in place, whatever
\* was displayed before.
C16_FaultReevaluated ==
  /\ [](pc = "delay" =>
          screen = IF Silent THEN NoGpsScreen
                   ELSE View(currentMode, gps, hasLastPosition, lastLat, lastLng))
  /\ [][(pc = "fault" /\ pc' = "delay" /\ gps.chars >= FAULT_MIN_CHARS)
          => (screen' = screen /\ screen' # NoGpsScreen)]_vars

\* the steps of loop() in program order; the transmit step is the interval
\* test, then (when due) the guard of sendBleGGA, then (when it passes) the
\* notify call
StepOrder ==
  { <<"input", "gps">>, <<"gps", "render">>, <<"render", "tx">>,
    <<"tx", "send">>, <<"tx", "persist">>,
    <<"send", "notify">>, <<"send", "persist">>, <<"notify", "persist">>,
    <<"persist", "fault">>, <<"fault", "delay">>, <<"delay", "input">> }

\* C17: the loop moves through input dispatch, sensor reconcile, render,
\* radio transmit, position persist and fault check in that order, through
\* every one of them in every iteration; the sensor snapshot changes only in
\* the reconcile step, so what the render step has drawn, what the transmit
\* step sends and what the persist step writes come from the snapshot of
\* that iteration's reconcile.
C17_StepOrder ==
  /\ [][pc' # pc => <<pc, pc'>> \in StepOrder]_vars
  /\ [][gps' # gps => (pc = "gps" /\ pc' = "render")]_vars
  /\ []((pc \in {"tx", "send", "notify", "persist", "fault"}
           /\ currentMode = MODE_MAIN /\ gps.locValid)
          => (screen.class = "live" /\ screen.lat = Fmt5(gps.loc.lat)
                                   /\ screen.lng = Fmt5(gps.loc.lng)))
  /\ [][PositionWritten => (nvs'.lat = gps.loc.lat /\ nvs'.lng = gps.loc.lng)]_vars

C17_Witness ==
  /\ pc = "delay" /\ iter > 0
  /\ obs.ggaThisIter = 1 /\ obs.ggaAt[2] = clock /\ obs.saveAt[2] = clock
  /\ screen.class = "live" /\ screen.lat = Fmt5(nvs.lat)

\* ------------------------------------------------- reading a sentence back
\* bit k of the XOR of bytes lo..hi of s is the parity of the number of
\* those bytes that have bit k set
BitParity(s, lo, hi, k) ==
  Cardinality({ i \in lo .. hi : (s[i] \div 2^k) % 2 = 1 }) % 2

XorOver(s, lo, hi) ==
  BitParity(s, lo, hi, 0) + 2 * BitParity(s, lo, hi, 1)
    + 4 * BitParity(s, lo, hi, 2) + 8 * BitParity(s, lo, hi, 3)
    + 16 * BitParity(s, lo, hi, 4) + 32 * BitParity(s, lo, hi, 5)
    + 64 * BitParity(s, lo, hi, 6) + 128 * BitParity(s, lo, hi, 7)

IsUpperHex(c) == c \in (Ord("0") .. Ord("9")) \cup (Ord("A") .. (Ord("A") + 5))
HexValue(c) == IF c <= Ord("9") THEN c - Ord("0") ELSE c - Ord("A") + 10

\* $ payload * two uppercase hex digits CR LF, the digits being the XOR of
\* the payload bytes
WellFramed(s) ==
  LET n == Len(s)
      star == n - 4
  IN /\ n >= 6
     /\ s[1] = Ord("$")
     /\ \A i \in 2 .. n : s[i] # Ord("$")
     /\ \A i \in 1 .. n : (s[i] = Ord("*")) <=> (i = star)
     /\ IsUpperHex(s[star + 1]) /\ IsUpperHex(s[star + 2])
     /\ 16 * HexValue(s[star + 1]) + HexValue(s[star + 2]) = XorOver(s, 2, star - 1)
     /\ s[n - 1] = Ord("CR") /\ s[n] = Ord("LF")

\* bytes i..hi of s split at the commas; `cur` is the piece being read,
\* `done` the pieces read
RECURSIVE SplitFrom(_, _, _, _, _)
SplitFrom(s, i, hi, cur, done) ==
  IF Len(cur) + Len(done) < 0 THEN done
  ELSE IF i > hi THEN Append(done, cur)
  ELSE IF s[i] = Ord(",") THEN SplitFrom(s, i + 1, hi, << >>, Append(done, cur))
  ELSE SplitFrom(s, i + 1, hi, Append(cur, s[i]), done)

\* the comma-separated fields of the payload, the address field left out
Fields(s) == Tail(SplitFrom(s, 2, Len(s) - 5, << >>, << >>))

\* the state right after a position sentence went out
JustSent == pc = "persist" /\ obs.sent # << >>

\* C18: every position sentence and every identification sentence handed to
\* the radio is '$', payload, '*', two uppercase hex digits that are the XOR
\* of the payload bytes, CR, LF.
C18_ChecksumFraming ==
  /\ JustSent => WellFramed(obs.sent)
  /\ (pc = "persist" /\ obs.infoMsg # << >>) => WellFramed(obs.infoMsg)

C18_Witness ==
  /\ JustSent /\ obs.infoMsg # << >>
  /\ gps.locValid /\ gps.loc.lat < 0 /\ gps.time.valid /\ gps.sats.valid
  /\ gps.hdop.valid /\ gps.alt.valid /\ gps.alt.value < 0

\* the sentence of a snapshot without any valid field
NoFixSentence ==
  Str(<< "$", "G", "P", "G", "G", "A", ",", "0", "0", "0", "0", "0", "0", ".", "0", "0", "0",
         ",", ",", "N", ",", ",", "E", ",", "0", ",", "0", "0", ",", "9", "9", ".", "9",
         ",", "0", ".", "0", ",", "M", ",", "0", ".", "0", ",", "M", ",", ",", "*",
         "6", "4", "CR", "LF" >>)

AllInvalid(g) ==
  ~g.locValid /\ ~g.time.valid /\ ~g.sats.valid /\ ~g.hdop.valid /\ ~g.alt.valid

\* C19: the sentence sent for a snapshot with no valid field has time
\* 000000.000, empty latitude and longitude, fix quality 0, satellite count
\* 00, HDOP 99.9, altitude 0.0, fourteen fields and a valid checksum.
C19_NoFixSentence ==
  (JustSent /\ AllInvalid(gps)) =>
    LET f == Fields(obs.sent)
    IN /\ obs.sent = NoFixSentence
       /\ WellFramed(obs.sent)
       /\ Len(f) = 14
       /\ f[1] = Str(<< "0", "0", "0", "0", "0", "0", ".", "0", "0", "0" >>)
       /\ f[2] = << >> /\ f[4] = << >>
       /\ f[6] = Str(<< "0" >>)
       /\ f[7] = Str(<< "0", "0" >>)
       /\ f[8] = Str(<< "9", "9", ".", "9" >>)
       /\ f[9] = Str(<< "0", ".", "0" >>)

C19_Witness == JustSent /\ AllInvalid(gps) /\ iter > 1

\* C20 as stated: an invalid satellite count is rendered as an empty field.
C20_InvalidSatsEmpty ==
  (JustSent /\ ~gps.sats.valid) => Fields(obs.sent)[7] = << >>

\* C20 as amended: an invalid satellite count is rendered as the number 00;
\* latitude and longitude are empty exactly when the position is invalid,
\* and apart from them only the last two fields are ever empty.
C20_FieldDefaults ==
  JustSent =>
    LET f == Fields(obs.sent)
    IN /\ Len(f) = 14
       /\ ~gps.sats.valid => f[7] = Str(<< "0", "0" >>)
       /\ (f[2] = << >>) <=> ~gps.locValid
       /\ (f[4] = << >>) <=> ~gps.locValid
       /\ \A k \in 1 .. 14 : f[k] = << >> => k \in {2, 4, 13, 14}

C20_Witness ==
  /\ JustSent /\ ~gps.sats.valid
  /\ gps.locValid /\ gps.time.valid /\ gps.hdop.valid /\ ~gps.alt.valid

\* C21: the digits of a coordinate field come from the magnitude and the
\* hemisphere letter from the sign: the sentence sent for a valid position has
\* the digits of the sentence of the mirrored position (latitude and longitude
\* negated), S or W exactly for a negative value, the mirrored sentence then
\* having the other letter; latitude 37.422000 is sent as 3725.320000
Mirrored(g) == [g EXCEPT !.loc = [lat |-> -g.loc.lat, lng |-> -g.loc.lng]]

C21_MagnitudeAndSign ==
  (JustSent /\ gps.locValid) =>
    LET f == Fields(obs.sent)
        m == Fields(generateGGA(Mirrored(gps)))
        lat == gps.loc.lat
        lng == gps.loc.lng
    IN /\ f[2] = m[2] /\ f[4] = m[4]
       /\ f[3] = (IF lat < 0 THEN Str(<< "S" >>) ELSE Str(<< "N" >>))
       /\ f[5] = (IF lng < 0 THEN Str(<< "W" >>) ELSE Str(<< "E" >>))
       /\ (lat > 0 => m[3] = Str(<< "S" >>)) /\ (lat < 0 => m[3] = Str(<< "N" >>))
       /\ (lng > 0 => m[5] = Str(<< "W" >>)) /\ (lng < 0 => m[5] = Str(<< "E" >>))
       /\ ((lat \in {37422000, -37422000} /\ gps.sub.lat = 0) =>
              f[2] = Str(<< "3", "7", "2", "5", ".", "3", "2", "0", "0", "0", "0" >>))

C21_Witness ==
  /\ JustSent /\ gps.locValid /\ gps.loc.lat = -37422000 /\ gps.sub.lat = 0
  /\ Fields(obs.sent)[2] = Str(<< "3", "7", "2", "5", ".", "3", "2", "0", "0", "0", "0" >>)
  /\ Fields(obs.sent)[3] = Str(<< "S" >>)
  /\ Fields(obs.sent)[4] = Str(<< "1", "2", "2", "0", "5", ".", "0", "4", "0", "0", "0", "0" >>)
  /\ Fields(obs.sent)[5] = Str(<< "E" >>)

\* C22: between the render step and the persist step of an iteration the
\* coordinate lines of the main view are determined by the validity of the
\* live position and hasLastPosition: valid, the live coordinates in white;
\* invalid with hasLastPosition, the stored coordinates in grey; the blank
\* placeholder only when the position is invalid and hasLastPosition is false
Painted == pc \in {"tx", "send", "notify", "persist"}

C22_CoordinateLines ==
  (Painted /\ screen.view = "main") =>
    /\ gps.locValid =>
          screen = [view |-> "main", class |-> "live",
                    lat |-> Fmt5(gps.loc.lat), lng |-> Fmt5(gps.loc.lng)]
    /\ (~gps.locValid /\ hasLastPosition) =>
          screen = [view |-> "main", class |-> "stale",
                    lat |-> Fmt5(lastLat), lng |-> Fmt5(lastLng)]
    /\ (~gps.locValid /\ ~hasLastPosition) =>
          screen = [view |-> "main", class |-> "blank", lat |-> 0, lng |-> 0]
    /\ screen.class = "blank" <=> (~gps.locValid /\ ~hasLastPosition)

C22_Witness ==
  /\ Painted /\ screen.view = "main" /\ screen.class = "stale"
  /\ ~gps.locValid /\ hasLastPosition
  /\ gps.loc.lat # lastLat
  /\ screen.lat = Fmt5(lastLat) /\ screen.lat # 0

\* C23: the satellite view shows a valid HDOP with the class of its
\* half-open interval: below 1.0 ideal, from 1.0 to below 2.0 excellent,
\* from 2.0 to below 5.0 good, from 5.0 moderate; 0.99, 1.99, 4.99 and 5.01
\* are ideal, excellent, good and moderate, 1.0, 2.0 and 5.0 are excellent,
\* good and moderate
C23_HdopClasses ==
  (Painted /\ screen.view = "satellites" /\ gps.hdop.valid) =>
    LET v == gps.hdop.value
        c == screen.class
    IN /\ v < 100 => c = "ideal"
       /\ (100 <= v /\ v < 200) => c = "excellent"
       /\ (200 <= v /\ v < 500) => c = "good"
       /\ 500 <= v => c = "moderate"
       /\ v = 99 => c = "ideal"
       /\ v = 199 => c = "excellent"
       /\ v = 499 => c = "good"
       /\ v = 501 => c = "moderate"
       /\ v = 100 => c = "excellent"
       /\ v = 200 => c = "good"
       /\ v = 500 => c = "moderate"

C23_Witness ==
  /\ Painted /\ screen.view = "satellites"
  /\ gps.hdop.valid /\ gps.hdop.value = 500 /\ screen.class = "moderate"

\* C24: the speed view shows a heading exactly when the course is valid, the
\* speed is valid and the speed is greater than 1.0 km/h; otherwise, a speed
\* of exactly 1.0 km/h included, it shows the placeholder
C24_HeadingLine ==
  (Painted /\ screen.view = "speedalt") =>
    /\ screen.class = "heading" <=>
         (gps.course.valid /\ gps.speed.valid /\ gps.speed.value > 1000)
    /\ screen.class # "heading" => screen.class = "placeholder"
    /\ (gps.speed.valid /\ gps.speed.value = 1000) => screen.class = "placeholder"

C24_Witness ==
  /\ Painted /\ screen.view = "speedalt"
  /\ gps.course.valid /\ gps.speed.valid /\ gps.speed.value = 1000
  /\ screen.class = "placeholder"

\* the steps that write to the store, and whether the store took the write
BrightWriteStep == pc = "input" /\ pc' # pc /\ btn'.hold
PositionWriteStep == pc = "persist" /\ obs'.saveAt # obs.saveAt
WriteTaken == obs'.taken

\* C25: a store write that fails is not fatal: the step that wrote goes on
\* to the next step of the iteration with the new brightness index, or the
\* new position in the mirror, whether or not the store took the write;
\* nothing but these steps changes the index or the mirror afterwards; and a
\* write the store takes leaves the store holding the values then in memory
C25_FailedWriteNotFatal ==
  [][ /\ BrightWriteStep =>
           /\ pc' = "gps"
           /\ brightnessIndex' = NextBrightness(brightnessIndex)
           /\ WriteTaken => (nvs'.hasBright /\ nvs'.bright = brightnessIndex')
           /\ ~WriteTaken => nvs' = nvs
      /\ PositionWriteStep =>
           /\ pc' = "fault"
           /\ lastLat' = gps.loc.lat /\ lastLng' = gps.loc.lng /\ hasLastPosition'
           /\ WriteTaken =>
                (nvs'.hasLat /\ nvs'.lat = lastLat' /\ nvs'.lng = lastLng')
      /\ brightnessIndex' # brightnessIndex => BrightWriteStep
      /\ << lastLat, lastLng, hasLastPosition >>' # << lastLat, lastLng, hasLastPosition >>
           => PositionWriteStep
      /\ (pc = "delay" /\ iter < MaxIter) => ENABLED Delay(SlowPeriods)
    ]_vars

C25_Witness ==
  /\ obs.healed /\ obs.failed.bright /\ pc = "delay" /\ iter > 2
  /\ nvs.hasLat /\ nvs.lat = lastLat /\ nvs.lng = lastLng /\ lastLat # 0
  /\ nvs.bright # brightnessIndex

\* C26: each piece of state has one writer: the render, transmit, encode,
\* persist and fault-check steps leave currentMode and brightnessIndex as
\* they are, and so does every step but the input step; the input, render,
\* transmit and fault-check steps leave lastLat, lastLng and hasLastPosition
\* as they are, and so does every step but the persist step; no step but
\* updateGPS changes a field of the decoder snapshot, and encoding the
\* snapshot again after the encode step gives the sentence that was sent
LoopStep == pc' # pc
Setting == << currentMode, brightnessIndex >>
LastKnown == << lastLat, lastLng, hasLastPosition >>

C26_SingleWriter ==
  [][ /\ (LoopStep /\ pc \in {"render", "tx", "send", "notify", "persist", "fault"})
           => Setting' = Setting
      /\ (LoopStep /\ pc \in {"input", "render", "tx", "send", "notify", "fault"})
           => LastKnown' = LastKnown
      /\ (LoopStep /\ pc # "gps") => gps' = gps
      /\ Setting' # Setting => (LoopStep /\ pc = "input")
      /\ LastKnown' # LastKnown => (LoopStep /\ pc = "persist")
      /\ gps' # gps => (LoopStep /\ pc = "gps")
      /\ (LoopStep /\ pc = "notify") => obs'.sent = generateGGA(gps')
    ]_vars

C26_Witness ==
  /\ pc = "delay" /\ obs.ggaThisIter = 1 /\ obs.saveAt[2] = clock
  /\ obs.clicks > 0 /\ obs.held /\ gps.locValid
  /\ currentMode # MODE_MAIN /\ brightnessIndex # 0
  /\ lastLat = gps.loc.lat /\ hasLastPosition /\ obs.sent = generateGGA(gps)

\* C27: in every state brightnessIndex is an index of BRIGHTNESS_LEVELS
\* (0..2) and currentMode is one of the three views; a session that found a
\* brightness byte outside 0..2 in the store starts with index 0
C27_IndexInRange ==
  /\ brightnessIndex \in 0 .. (BRIGHTNESS_COUNT - 1)
  /\ currentMode \in {MODE_MAIN, MODE_SATELLITES, MODE_SPEED_ALT}
  /\ (iter = 0 /\ ~obs.held /\ nvs.hasBright /\ nvs.bright >= BRIGHTNESS_COUNT)
       => brightnessIndex = 0

C27_Witness ==
  /\ iter = 0 /\ pc = "gps" /\ btn.click /\ ~btn.hold
  /\ nvs.hasBright /\ nvs.bright >= BRIGHTNESS_COUNT
  /\ brightnessIndex = 0 /\ currentMode = MODE_SATELLITES

\* C28: the fix-quality field of every position sentence sent is 1 when the
\* live position is valid and 0 when it is not, whichever fix-quality class
\* the decoder reports
C28_FixQualityField ==
  JustSent =>
    /\ gps.quality \in Qualities
    /\ Fields(obs.sent)[6] = (IF gps.locValid THEN Str(<< "1" >>) ELSE Str(<< "0" >>))

C28_Witness ==
  /\ JustSent /\ gps.locValid /\ gps.quality = "RTK"
  /\ Fields(obs.sent)[6] = Str(<< "1" >>)

\* C29: in every position sentence sent for a valid position the minutes of
\* the latitude field (DDMM.mmmmmm) and of the longitude field
\* (DDDMM.mmmmmm) are below 60: the tens digit of the minutes is 0..5
MinuteTens == { Ord("0"), Ord("1"), Ord("2"), Ord("3"), Ord("4"), Ord("5") }

C29_MinutesBelowSixty ==
  (JustSent /\ gps.locValid) =>
    /\ Fields(obs.sent)[2][3] \in MinuteTens
    /\ Fields(obs.sent)[4][4] \in MinuteTens

\* C30: across the wraparound of millis() two successive position sentences
\* are more than BLE_TRANSMIT_INTERVAL apart and two successive position
\* writes more than SAVE_INTERVAL apart, and neither stalls: a transmit step
\* reached with the peer connected more than BLE_TRANSMIT_INTERVAL after the
\* last sentence transmits, a persist step reached with a valid position more
\* than SAVE_INTERVAL after the last write writes
C30_CadenceAcrossWrap ==
  /\ [](/\ obs.ggaAt[1] # None => obs.ggaAt[2] - obs.ggaAt[1] > BLE_TRANSMIT_INTERVAL
        /\ obs.saveAt[1] # None => obs.saveAt[2] - obs.saveAt[1] > SAVE_INTERVAL)
  /\ [][ /\ (pc = "tx" /\ pc' # pc /\ bleConnected /\ obs.ggaAt[2] # None
               /\ clock - obs.ggaAt[2] > BLE_TRANSMIT_INTERVAL)
              => (pc' = "send" /\ lastBleTransmit' = millis)
         /\ (pc = "persist" /\ pc' # pc /\ gps.locValid /\ obs.saveAt[2] # None
               /\ clock - obs.saveAt[2] > SAVE_INTERVAL)
              => (obs'.saveAt[2] = clock /\ lastSaveTime' = millis
                    /\ nvs'.lat = gps.loc.lat)
       ]_vars

\* after the wraparound: the last two sentences and the last two writes lie
\* on either side of it
C30_Witness ==
  /\ pc = "fault" /\ millis[1] = 0
  /\ obs.ggaAt[1] = 0 /\ obs.ggaAt[2] > BLE_TRANSMIT_INTERVAL
  /\ obs.saveAt[1] = 0 /\ obs.saveAt[2] = clock
  /\ Gt32(lastBleTransmit, LOOP_DELAY) /\ lastSaveTime = millis

\* C31: within a session charsProcessed never decreases, so once it has
\* reached FAULT_MIN_CHARS no fault check raises the error screen again,
\* however long the sensor is silent afterwards: the error screen appears
\* only in a fault check, and only in one made with fewer than
\* FAULT_MIN_CHARS bytes processed
FaultStep == pc = "fault" /\ pc' = "delay"

C31_NoFaultAfterTenBytes ==
  [][ /\ obs'.boots = obs.boots => gps'.chars >= gps.chars
      /\ (FaultStep /\ gps.chars >= FAULT_MIN_CHARS) =>
           (screen' = screen /\ screen'.view # "nogps" /\ obs'.faulted = obs.faulted)
      /\ (FaultStep /\ screen'.view = "nogps") => gps.chars < FAULT_MIN_CHARS
      /\ (screen'.view = "nogps" /\ screen.view # "nogps") => FaultStep
    ]_vars

\* the error screen was raised earlier in the session, ten bytes have been
\* processed since, and the sensor has now been silent for two save
\* intervals: the iteration ends with the main view
C31_Witness ==
  /\ pc = "delay" /\ obs.faulted /\ gps.chars = FAULT_MIN_CHARS
  /\ ~gps.locValid /\ obs.fixAt # None /\ clock - obs.fixAt >= 2 * SAVE_INTERVAL
  /\ Gt32(millis, FAULT_GRACE) /\ screen.view = "main"

====
